---- MODULE Spec2Model ----
(***************************************************************************)
(* A model of app2.py, the Nhoc Report dashboard: load_data and            *)
(* clean_meal_text, the sidebar filters, the metrics, the word-frequency   *)
(* tabs and the detail table.  Texts are sequences of one-character        *)
(* strings, so that the regular expressions of the program are modelled    *)
(* by what they do to the characters.                                      *)
(***************************************************************************)
EXTENDS Integers, Sequences, FiniteSets

VARIABLES pc, csv, df, date_range, meal_types, meal_search, hour_range,
          search_terms, df_filtered, unique_days, total_meals, avg_meals,
          avg_water, water_data, top_foods, progress, rare_foods, df_display,
          exported, text, cleaned, recleaned, words

vars == <<pc, csv, df, date_range, meal_types, meal_search, hour_range,
          search_terms, df_filtered, unique_days, total_meals, avg_meals,
          avg_water, water_data, top_foods, progress, rare_foods, df_display,
          exported, text, cleaned, recleaned, words>>

pipelineVars == <<csv, df, date_range, meal_types, meal_search, hour_range,
                  search_terms, df_filtered, unique_days, total_meals,
                  avg_meals, avg_water, water_data, df_display, exported>>

cleanVars == <<text, cleaned, recleaned>>

freqVars == <<words, top_foods, progress, rare_foods>>

(***************************************************************************)
(* Bounds of the model.                                                    *)
(***************************************************************************)
MaxTextLen == 4
MaxRows == 2
MaxDate == 2
MaxWords == 33
MaxRepeats == 1

(***************************************************************************)
(* Characters.                                                             *)
(***************************************************************************)
\* A cell that holds no text (pandas NaN in an object column); no text is
\* equal to it, because a text holds one-character strings only.
NaN == <<"NaN">>

\* A cell of a value a widget or view has not produced.
None == <<"None">>

Uppers ==
  <<"A","B","C","D","E","F","G","H","I","J","K","L","M","N","O","P","Q","R","S",
    "T","U","V","W","X","Y","Z","Á","Ã","Ç","Í","Ú">>

Lowers ==
  <<"a","b","c","d","e","f","g","h","i","j","k","l","m","n","o","p","q","r","s",
    "t","u","v","w","x","y","z","á","ã","ç","í","ú">>

Digits == {"0","1","2","3","4","5","6","7","8","9"}

Range(s) == {s[i] : i \in 1..Len(s)}

UpperSet == Range(Uppers)

LowerSet == Range(Lowers)

AsciiLowerSet == {Lowers[i] : i \in 1..26}

WordCharSet == UpperSet \cup LowerSet \cup Digits \cup {"_"}

LowerMap == [c \in UpperSet |-> Lowers[CHOOSE i \in 1..Len(Uppers) : Uppers[i] = c]]

UpperMap == [c \in LowerSet |-> Uppers[CHOOSE i \in 1..Len(Lowers) : Lowers[i] = c]]

IsUpper(c) == c \in UpperSet

IsLower(c) == c \in LowerSet

IsLetter(c) == IsUpper(c) \/ IsLower(c)

\* [a-z] of the token pattern: ASCII lowercase letters only.
IsAsciiLower(c) == c \in AsciiLowerSet

\* \d
IsDigit(c) == c \in Digits

\* \w
IsWordChar(c) == c \in WordCharSet

\* \s
IsSpace(c) == c \in {" ", "\t", "\n"}

LowerChar(c) == IF IsUpper(c) THEN LowerMap[c] ELSE c

UpperChar(c) == IF IsLower(c) THEN UpperMap[c] ELSE c

\* str.lower()
Lower(t) == [i \in 1..Len(t) |-> LowerChar(t[i])]

\* str.title(): a letter that follows a letter is lowercased, any other
\* letter is uppercased.
Title(t) ==
  [i \in 1..Len(t) |->
     IF i > 1 /\ IsLetter(t[i - 1]) THEN LowerChar(t[i]) ELSE UpperChar(t[i])]

\* The characters of t, from position i on, at the positions where mask
\* holds.
RECURSIVE KeepFrom(_, _, _)
KeepFrom(t, mask, i) ==
  IF i > Len(t) THEN <<>>
  ELSE (IF mask[i] THEN <<t[i]>> ELSE <<>>) \o KeepFrom(t, mask, i + 1)

KeepWhere(t, mask) == KeepFrom(t, mask, 1)

\* The maximal run of word characters that starts at position k: the text
\* between two word boundaries \b.
RunEnd(t, k) ==
  CHOOSE e \in k..Len(t) :
    /\ \A j \in k..e : IsWordChar(t[j])
    /\ (e = Len(t) \/ ~IsWordChar(t[e + 1]))

WordAt(t, k) == SubSeq(t, k, RunEnd(t, k))

(***************************************************************************)
(* clean_meal_text                                                         *)
(***************************************************************************)
\* re.sub(r'\d+', '', text)
RemoveDigits(t) == SelectSeq(t, LAMBDA c : ~IsDigit(c))

\* re.sub(r'\b\w*[0-9]\w*\b', '', text), scanning from position i, the
\* start of a run or a character outside the runs: every maximal run of
\* word characters that holds an ASCII digit is removed.
RECURSIVE RemoveDigitTokensFrom(_, _)
RemoveDigitTokensFrom(t, i) ==
  IF i > Len(t) THEN <<>>
  ELSE IF ~IsWordChar(t[i]) THEN <<t[i]>> \o RemoveDigitTokensFrom(t, i + 1)
  ELSE LET run == WordAt(t, i)
       IN  (IF \E k \in 1..Len(run) : IsDigit(run[k]) THEN <<>> ELSE run)
           \o RemoveDigitTokensFrom(t, i + Len(run))

RemoveDigitTokens(t) == RemoveDigitTokensFrom(t, 1)

stopwords == <<
    <<"i","n","t","e","g","r","a","l">>, <<"c","o","l","h","e","r">>, <<"f","a","t","i","a">>,
    <<"g","r","a","m","a","s">>, <<"g">>, <<"m","l">>, <<"c","o","p","o">>,
    <<"x","í","c","a","r","a">>, <<"p","e","d","a","ç","o">>, <<"d","e">>, <<"c","o","m">>,
    <<"e">>, <<"a">>, <<"o">>, <<"d","a">>, <<"d","o">>, <<"z","e","r","o">>,
    <<"m","e","i","a">>, <<"c","a","s","c","a">>, <<"d","u","a","s">>, <<"s","e","m">>,
    <<"p","a","r","a">>, <<"c","o","m">>, <<"p","o","u","c","o">>, <<"q","u","a","n","t","o">>,
    <<"q","u","a","n","d","o">>, <<"q","u","a","l">>, <<"a","q","u","e","l","e">>,
    <<"I","n","t","e","i","r","a">>, <<"p","ã","o">>, <<"f","a","t","i","a","s">>,
    <<"c","o","l","h","e","r","e","s">>, <<"c","u","b","o","s">>,
    <<"p","e","d","a","c","o","s">>, <<"p","e","d","a","ç","o","s">>,
    <<"C","o","n","c","h","a">>, <<"C","r","i","a">>, <<"M","i","n","i">>,
    <<"P","r","a","t","o">>, <<"I","n","t","e","g","r","a","i","s">>,
    <<"D","e","f","u","m","a","d","o">>, <<"L","a","s","c","a","s">>, <<"D","i","e","t">>,
    <<"L","i","g","h","t">>, <<"F","r","y","e","r">>, <<"F","l","o","r">>,
    <<"T","i","g","e","l","a">>, <<"A","s","s","a","d","a">>, <<"C","a","d","a">>
  >>

\* re.sub(rf'\b{word}\b', '', text, flags=re.IGNORECASE), scanning from
\* position i: a stopword holds word characters only, so it matches between
\* two word boundaries exactly where a maximal run of word characters
\* equals it, case ignored.
RECURSIVE RemoveWordFrom(_, _, _)
RemoveWordFrom(t, word, i) ==
  IF i > Len(t) THEN <<>>
  ELSE IF ~IsWordChar(t[i]) THEN <<t[i]>> \o RemoveWordFrom(t, word, i + 1)
  ELSE LET run == WordAt(t, i)
       IN  (IF Len(run) = Len(word) /\ Lower(run) = Lower(word) THEN <<>> ELSE run)
           \o RemoveWordFrom(t, word, i + Len(run))

RemoveWord(t, word) == RemoveWordFrom(t, word, 1)

\* for word in stopwords: text = re.sub(...)
RECURSIVE RemoveStopwords(_, _)
RemoveStopwords(t, i) ==
  IF i > Len(stopwords) THEN t
  ELSE LET removed == RemoveWord(t, stopwords[i])
       IN  IF Len(removed) = 0 THEN removed ELSE RemoveStopwords(removed, i + 1)

\* re.sub(r'[^\w\s]', '', text)
RemovePunctuation(t) == SelectSeq(t, LAMBDA c : IsWordChar(c) \/ IsSpace(c))

\* ' '.join(text.split()).strip(): runs of whitespace become one space and
\* the whitespace at both ends goes.
CollapseSpaces(t) ==
  LET kept == KeepWhere(t, [k \in 1..Len(t) |->
                \/ ~IsSpace(t[k])
                \/ /\ k > 1
                   /\ ~IsSpace(t[k - 1])
                   /\ \E j \in (k + 1)..Len(t) : ~IsSpace(t[j])])
  IN  [i \in 1..Len(kept) |-> IF IsSpace(kept[i]) THEN " " ELSE kept[i]]

clean_meal_text(t) ==
  IF t = NaN THEN <<>>
  ELSE Title(CollapseSpaces(RemovePunctuation(
         RemoveStopwords(RemoveDigitTokens(RemoveDigits(t)), 1))))

(***************************************************************************)
(* The specification of clean_meal_text alone: every text over             *)
(* CleanAlphabet of at most MaxTextLen characters, and the absent text.    *)
(***************************************************************************)
CleanAlphabet == {"m", "L", "e", "2", "-", " "}

TextsUpTo(n) == UNION {[1..k -> CleanAlphabet] : k \in 0..n}

InitClean ==
  /\ pc = "text"
  /\ text \in TextsUpTo(MaxTextLen) \cup {NaN}
  /\ cleaned = None
  /\ recleaned = None
  /\ csv = None /\ df = None /\ date_range = None /\ meal_types = None
  /\ meal_search = None /\ hour_range = None /\ search_terms = None
  /\ df_filtered = None /\ unique_days = None /\ total_meals = None
  /\ avg_meals = None /\ avg_water = None /\ water_data = None
  /\ df_display = None
  /\ exported = None
  /\ words = None /\ top_foods = None /\ progress = None /\ rare_foods = None

Clean ==
  /\ pc = "text"
  /\ cleaned' = clean_meal_text(text)
  /\ pc' = "cleaned"
  /\ UNCHANGED <<text, recleaned, pipelineVars, freqVars>>

CleanAgain ==
  /\ pc = "cleaned"
  /\ recleaned' = clean_meal_text(cleaned)
  /\ pc' = "recleaned"
  /\ UNCHANGED <<text, cleaned, pipelineVars, freqVars>>

NextClean == Clean \/ CleanAgain

SpecClean == InitClean /\ [][NextClean]_vars

(***************************************************************************)
(* Numbers.  A float is a fraction n/d; the float NaN is 0/0.              *)
(***************************************************************************)
F(k) == [n |-> k, d |-> 1]

NaNF == [n |-> 0, d |-> 0]

IsNaNF(x) == x.d = 0

\* x / k for a k > 0; NaN / k is NaN.
DivF(x, k) == [n |-> x.n, d |-> x.d * k]

AddF(x, y) == [n |-> x.n * y.d + y.n * x.d, d |-> x.d * y.d]

RECURSIVE SumF(_)
SumF(s) == IF s = <<>> THEN F(0) ELSE AddF(Head(s), SumF(Tail(s)))

\* Series.mean(): the mean of the values that are not NaN, NaN when there
\* is none.
Mean(s) ==
  LET present == SelectSeq(s, LAMBDA x : ~IsNaNF(x))
  IN  IF present = <<>> THEN NaNF ELSE DivF(SumF(present), Len(present))

\* round(n / d, 1), in tenths, halves to the even tenth.
Round1(n, d) ==
  LET q == (10 * n) \div d
      r == (10 * n) % d
      tenths == IF 2 * r < d THEN q
                ELSE IF 2 * r > d THEN q + 1
                ELSE IF q % 2 = 0 THEN q ELSE q + 1
  IN  [n |-> tenths, d |-> 10]

Min(S) == CHOOSE x \in S : \A y \in S : x <= y

(***************************************************************************)
(* The file nhoc_report_2025-08-08_ana.csv: at most MaxRows rows, dates    *)
(* the days 1..MaxDate of August 2025.                                     *)
(***************************************************************************)
DataValues == 1..MaxDate

\* 'Horário': hour and minute.
HorarioValues == {<<5, 30>>, <<12, 0>>}

TipoValues == {"Cafe", "Almoco"}

RefeicaoValues ==
  { NaN,
    <<"A","r","r","o","z"," ","e"," ","a","r","r","o","z">>,
    <<"o","v","o">> }

AguaValues == {NaNF, F(300), F(500)}

CsvRows ==
  [Data : DataValues, Horario : HorarioValues, Tipo : TipoValues,
   Refeicao : RefeicaoValues, AguaMl : AguaValues]

CsvFiles == UNION {[1..k -> CsvRows] : k \in 1..MaxRows}

(***************************************************************************)
(* load_data                                                               *)
(***************************************************************************)
DayNames ==
  <<"Friday", "Saturday", "Sunday", "Monday", "Tuesday", "Wednesday", "Thursday">>

\* dt.day_name(): 1 August 2025 is a Friday.
day_name(d) == DayNames[((d - 1) % 7) + 1]

\* groupby('Data')['Água (ml)'].transform('first'): GroupBy.first takes the
\* first value of the group that is not NaN, NaN when the group has none.
GroupFirst(rows, date) ==
  LET present == {i \in 1..Len(rows) :
                    rows[i].Data = date /\ ~IsNaNF(rows[i].AguaMl)}
  IN  IF present = {} THEN NaNF ELSE rows[Min(present)].AguaMl

LoadRow(rows, i) ==
  [idx |-> i,
   Data |-> rows[i].Data,
   Horario |-> rows[i].Horario,
   Tipo |-> rows[i].Tipo,
   Refeicao |-> rows[i].Refeicao,
   AguaMl |-> rows[i].AguaMl,
   Dia |-> day_name(rows[i].Data),
   Hora |-> rows[i].Horario[1],
   AguaL |-> DivF(GroupFirst(rows, rows[i].Data), 1000),
   RefeicaoLimpa |-> clean_meal_text(rows[i].Refeicao),
   TextoParaBusca |-> IF rows[i].Refeicao = NaN THEN NaN ELSE Lower(rows[i].Refeicao)]

LoadTable(rows) == [i \in 1..Len(rows) |-> LoadRow(rows, i)]

Init ==
  /\ pc = "start"
  /\ csv \in CsvFiles
  /\ df = None /\ date_range = None /\ meal_types = None
  /\ meal_search = None /\ hour_range = None /\ search_terms = None
  /\ df_filtered = None /\ unique_days = None /\ total_meals = None
  /\ avg_meals = None /\ avg_water = None /\ water_data = None
  /\ df_display = None
  /\ exported = None
  /\ top_foods = None /\ progress = None /\ rare_foods = None
  /\ text = None /\ cleaned = None /\ recleaned = None /\ words = None

\* read_csv gives a column of texts the object dtype unless every cell of it
\* is empty; df['Refeição'].str raises for a column that is not of texts.
HasStrAccessor(rows) == \E i \in 1..Len(rows) : rows[i].Refeicao # NaN

load_data ==
  /\ pc = "start"
  /\ IF HasStrAccessor(csv)
     THEN df' = LoadTable(csv) /\ pc' = "loaded"
     ELSE df' = df /\ pc' = "load_error"
  /\ UNCHANGED <<csv, date_range, meal_types, meal_search, hour_range,
                 search_terms, df_filtered, unique_days, total_meals,
                 avg_meals, avg_water, water_data, df_display, exported,
                 cleanVars,
                 freqVars>>

(***************************************************************************)
(* The sidebar widgets.                                                    *)
(***************************************************************************)
Dates(t) == {t[i].Data : i \in 1..Len(t)}

Max(S) == CHOOSE x \in S : \A y \in S : x >= y

\* date_input: two dates between the first and the last date of the table.
DateRanges(t) ==
  {<<lo, hi>> \in (Min(Dates(t))..Max(Dates(t))) \X (Min(Dates(t))..Max(Dates(t))) :
     lo <= hi}

\* multiselect: any of the table's meal types.
MealTypeChoices(t) == SUBSET {t[i].Tipo : i \in 1..Len(t)}

\* text_input: the texts the model types into the search box.  A term is
\* handed to str.contains as a pattern; the patterns of the model are made
\* of letters, spaces and the dot.
SearchInputs ==
  { <<>>,
    <<" ", ",", " ">>,
    <<" ", "O", "v", "o", ",">>,
    <<"a", ".", "r">>,
    <<"o", "v", "o", ",", "a", "r", "r", "o", "z">> }

\* slider: the default (6, 22) and the whole day.
HourRanges == {<<6, 22>>, <<0, 23>>}

(***************************************************************************)
(* The filters.                                                            *)
(***************************************************************************)
\* df['Data'].between(date_range[0], date_range[1])
DateMask(row, range) == range[1] <= row.Data /\ row.Data <= range[2]

\* df['Tipo'].isin(meal_types)
TipoMask(row, types) == row.Tipo \in types

\* df['Hora'].between(hour_range[0], hour_range[1])
HoraMask(row, range) == range[1] <= row.Hora /\ row.Hora <= range[2]

\* The rows of t at the positions where mask holds, in the order of t.
RECURSIVE RowsFrom(_, _, _)
RowsFrom(t, mask, i) ==
  IF i > Len(t) THEN <<>>
  ELSE (IF mask[i] THEN <<t[i]>> ELSE <<>>) \o RowsFrom(t, mask, i + 1)

\* df[mask]
RowsWhere(t, mask) == RowsFrom(t, mask, 1)

\* The basic filters with the hour mask joined by | where the program has &.
BasicFilterHourOr(t, dates, types, hours) ==
  RowsWhere(t, [i \in 1..Len(t) |->
    (DateMask(t[i], dates) /\ TipoMask(t[i], types)) \/ HoraMask(t[i], hours)])

\* df[ between & isin & between ]
BasicFilter(t, dates, types, hours) ==
  RowsWhere(t, [i \in 1..Len(t) |->
    DateMask(t[i], dates) /\ TipoMask(t[i], types) /\ HoraMask(t[i], hours)])

\* str.split(','): the pieces between the commas, from position i on.
RECURSIVE SplitFrom(_, _, _)
SplitFrom(t, i, piece) ==
  IF i > Len(t) THEN <<piece>>
  ELSE IF t[i] = "," THEN <<piece>> \o SplitFrom(t, i + 1, <<>>)
  ELSE SplitFrom(t, i + 1, Append(piece, t[i]))

Split(t) == SplitFrom(t, 1, <<>>)

\* str.strip()
Strip(t) ==
  LET inside == {i \in 1..Len(t) : ~IsSpace(t[i])}
  IN  IF inside = {} THEN <<>> ELSE SubSeq(t, Min(inside), Max(inside))

\* [term.strip().lower() for term in meal_search.split(',') if term.strip()]
SearchTerms(search) ==
  LET pieces == SelectSeq(Split(search), LAMBDA piece : Strip(piece) # <<>>)
  IN  [i \in 1..Len(pieces) |-> Lower(Strip(pieces[i]))]

\* One character of a pattern against one character of the text, with
\* re.IGNORECASE: the dot matches any character but a line break.
PatternCharMatches(p, c) ==
  IF p = "." THEN c # "\n" ELSE LowerChar(p) = LowerChar(c)

\* Series.str.contains(term, case=False, na=False): term is searched as a
\* regular expression (regex=True is the default); an absent text gives
\* False.
Contains(txt, term) ==
  /\ txt # NaN
  /\ \E s \in 1..(Len(txt) - Len(term) + 1) :
       \A j \in 1..Len(term) : PatternCharMatches(term[j], txt[s + j - 1])

\* mask = pd.Series(False); for term in search_terms: mask = mask | contains
SearchMask(t, terms) ==
  [i \in 1..Len(t) |->
     \E k \in 1..Len(terms) : Contains(t[i].TextoParaBusca, terms[k])]

\* if meal_search: ... df_filtered = df_filtered[mask]
SearchFilter(t, search) ==
  IF search = <<>> THEN t ELSE RowsWhere(t, SearchMask(t, SearchTerms(search)))

ApplyFilters ==
  /\ pc = "loaded"
  /\ \E dates \in DateRanges(df), types \in MealTypeChoices(df),
        search \in SearchInputs, hours \in HourRanges :
       /\ date_range' = dates
       /\ meal_types' = types
       /\ meal_search' = search
       /\ hour_range' = hours
       /\ search_terms' = IF search = <<>> THEN search_terms ELSE SearchTerms(search)
       /\ df_filtered' = SearchFilter(BasicFilter(df, dates, types, hours), search)
  /\ pc' = "filtered"
  /\ UNCHANGED <<csv, df, unique_days, total_meals, avg_meals, avg_water,
                 water_data, df_display, exported, cleanVars, freqVars>>

(***************************************************************************)
(* The metrics and the water chart.                                        *)
(***************************************************************************)
\* DataFrame.duplicated('Data'): a row is a duplicate when an earlier row
\* of the table has its date.
Duplicated(t) ==
  [i \in 1..Len(t) |-> \E j \in 1..(i - 1) : t[j].Data = t[i].Data]

\* DataFrame.drop_duplicates('Data')
DropDuplicates(t) ==
  RowsWhere(t, [i \in 1..Len(t) |-> ~Duplicated(t)[i]])

\* df_filtered['Data'].nunique()
NUnique(t) == Cardinality(Dates(t))

\* round(total_meals / unique_days, 1) if unique_days > 0 else 0
AvgMeals(total, days) == IF days > 0 THEN Round1(total, days) ELSE F(0)

\* df_filtered.drop_duplicates('Data')['Água (L)'].mean()
AvgWater(t) ==
  LET firsts == DropDuplicates(t)
  IN  Mean([i \in 1..Len(firsts) |-> firsts[i].AguaL])

\* df_filtered.drop_duplicates('Data')[['Data', 'Água (L)']]
WaterData(t) ==
  LET firsts == DropDuplicates(t)
  IN  [i \in 1..Len(firsts) |-> [Data |-> firsts[i].Data, AguaL |-> firsts[i].AguaL]]

Metrics ==
  /\ pc = "filtered"
  /\ unique_days' = NUnique(df_filtered)
  /\ total_meals' = Len(df_filtered)
  /\ avg_meals' = AvgMeals(Len(df_filtered), NUnique(df_filtered))
  /\ avg_water' = AvgWater(df_filtered)
  /\ water_data' = WaterData(df_filtered)
  /\ pc' = "metrics"
  /\ UNCHANGED <<csv, df, date_range, meal_types, meal_search, hour_range,
                 search_terms, df_filtered, df_display, exported, cleanVars,
                 freqVars>>

(***************************************************************************)
(* The word-frequency tabs.                                                *)
(***************************************************************************)
TopCount == 15

RareLimit == 30

\* ' '.join(df_filtered['Refeição Limpa'].dropna().astype(str)).lower()
RECURSIVE JoinFrom(_, _)
JoinFrom(t, i) ==
  IF i > Len(t) THEN <<>>
  ELSE IF i = Len(t) THEN t[i].RefeicaoLimpa
  ELSE t[i].RefeicaoLimpa \o <<" ">> \o JoinFrom(t, i + 1)

AllFoods(t) == Lower(JoinFrom(t, 1))

\* re.findall(r'\b[a-z]{4,}\b', all_foods): the maximal runs of word
\* characters that are made of the letters a-z only and are 4 or more long.
RECURSIVE FindWordsFrom(_, _)
FindWordsFrom(t, i) ==
  IF i > Len(t) THEN <<>>
  ELSE IF ~IsWordChar(t[i]) THEN FindWordsFrom(t, i + 1)
  ELSE LET word == WordAt(t, i)
       IN  (IF Len(word) >= 4 /\ \A k \in 1..Len(word) : IsAsciiLower(word[k])
            THEN <<word>> ELSE <<>>)
           \o FindWordsFrom(t, i + Len(word))

FindWords(t) == FindWordsFrom(t, 1)

\* Counter: the pairs <<word, count>> in the order the words are first met.
CounterAdd(counter, word) ==
  IF \E i \in 1..Len(counter) : counter[i][1] = word
  THEN [i \in 1..Len(counter) |->
          IF counter[i][1] = word THEN <<word, counter[i][2] + 1>> ELSE counter[i]]
  ELSE Append(counter, <<word, 1>>)

RECURSIVE CounterFrom(_, _, _)
CounterFrom(ws, i, counter) ==
  IF i > Len(ws) THEN counter ELSE CounterFrom(ws, i + 1, CounterAdd(counter, ws[i]))

Counter(ws) == CounterFrom(ws, 1, <<>>)

\* The first n pairs of the counter as they stand, with no ranking.
MostCommonUnranked(counter, n) ==
  SubSeq(counter, 1, IF Len(counter) < n THEN Len(counter) ELSE n)

\* Counter.most_common(n): heapq.nlargest(n, items, key=count), which gives
\* sorted(items, key=count, reverse=True)[:n]; the sort is stable, so of the
\* pairs of the largest count the one met first comes first.
RECURSIVE MostCommon(_, _)
MostCommon(counter, n) ==
  IF n = 0 \/ counter = <<>> THEN <<>>
  ELSE LET largest == Max({counter[i][2] : i \in 1..Len(counter)})
           best == Min({i \in 1..Len(counter) : counter[i][2] = largest})
           rest == [i \in 1..(Len(counter) - 1) |->
                      IF i < best THEN counter[i] ELSE counter[i + 1]]
       IN  <<counter[best]>> \o MostCommon(rest, n - 1)

\* [food for food, count in food_counts.items() if count == 1][:30]
RareFoods(counter) ==
  LET once == SelectSeq(counter, LAMBDA item : item[2] = 1)
  IN  [i \in 1..(IF Len(once) < RareLimit THEN Len(once) ELSE RareLimit) |->
         once[i][1]]

\* st.progress(value): a value outside [0.0, 1.0] raises.
ProgressAccepts(v) == v.d > 0 /\ 0 <= v.n /\ v.n <= v.d

\* for food, count in top_foods: st.progress(count / len(df_filtered), ...)
\* The values handed to st.progress, up to the first it rejects.
ProgressValues(top, rows) ==
  LET values == [i \in 1..Len(top) |-> DivF(F(top[i][2]), rows)]
      rejected == {i \in 1..Len(top) : ~ProgressAccepts(values[i])}
  IN  IF rejected = {} THEN values ELSE SubSeq(values, 1, Min(rejected))

Tabs ==
  /\ pc = "metrics"
  /\ LET found == FindWords(AllFoods(df_filtered))
         top == MostCommon(Counter(found), TopCount)
         shown == ProgressValues(top, Len(df_filtered))
         raised == \E i \in 1..Len(shown) : ~ProgressAccepts(shown[i])
     IN  /\ words' = found
         /\ top_foods' = top
         /\ progress' = shown
         /\ rare_foods' = IF raised THEN rare_foods ELSE RareFoods(Counter(found))
         /\ pc' = IF raised THEN "progress_error" ELSE "tabs"
  /\ UNCHANGED <<pipelineVars, cleanVars>>

(***************************************************************************)
(* The detail table and the export.                                        *)
(***************************************************************************)
\* The blanking with duplicated('Data', keep='last'): the last row of a date
\* keeps its value.
BlankDuplicatesKeepLast(t) ==
  [i \in 1..Len(t) |->
     IF \E j \in (i + 1)..Len(t) : t[j].Data = t[i].Data
     THEN [t[i] EXCEPT !.AguaL = NaNF] ELSE t[i]]

\* df_display.loc[df_display.duplicated('Data'), 'Água (L)'] = None
BlankDuplicates(t) ==
  [i \in 1..Len(t) |->
     IF Duplicated(t)[i] THEN [t[i] EXCEPT !.AguaL = NaNF] ELSE t[i]]

\* df_display[['Data', 'Tipo', 'Horário', 'Refeição Limpa', 'Água (L)']],
\* each row under its index label.
DisplayColumns(t) ==
  [i \in 1..Len(t) |->
     [idx |-> t[i].idx, Data |-> t[i].Data, Tipo |-> t[i].Tipo,
      Horario |-> t[i].Horario, RefeicaoLimpa |-> t[i].RefeicaoLimpa,
      AguaL |-> t[i].AguaL]]

\* sort_values('Data', ascending=False): the default quicksort is not
\* stable, so rows of one date come in any order.
SortedByDataDescending(t) ==
  {[i \in 1..Len(t) |-> t[p[i]]] :
     p \in {q \in [1..Len(t) -> 1..Len(t)] :
              /\ \A i, j \in 1..Len(t) : i # j => q[i] # q[j]
              /\ \A i, j \in 1..Len(t) : i < j => t[q[i]].Data >= t[q[j]].Data}}

CsvHeader ==
  <<"Data", "Horário", "Tipo", "Refeição", "Água (ml)", "Dia", "Hora",
    "Água (L)", "Refeição Limpa", "Texto para Busca">>

\* df_filtered.to_csv(index=False, sep=";"): the header, then one line of
\* cells for each row.
ToCsv(t) ==
  <<CsvHeader>> \o
  [i \in 1..Len(t) |->
     <<t[i].Data, t[i].Horario, t[i].Tipo, t[i].Refeicao, t[i].AguaMl,
       t[i].Dia, t[i].Hora, t[i].AguaL, t[i].RefeicaoLimpa,
       t[i].TextoParaBusca>>]

DetailTable ==
  /\ pc = "tabs"
  /\ df_display' \in SortedByDataDescending(DisplayColumns(BlankDuplicates(df_filtered)))
  /\ exported' = ToCsv(df_filtered)
  /\ pc' = "done"
  /\ UNCHANGED <<csv, df, date_range, meal_types, meal_search, hour_range,
                 search_terms, df_filtered, unique_days, total_meals,
                 avg_meals, avg_water, water_data, cleanVars, freqVars>>

Next == load_data \/ ApplyFilters \/ Metrics \/ Tabs \/ DetailTable

Spec == Init /\ [][Next]_vars

(***************************************************************************)
(* The specification of the filters alone: the files without water values, *)
(* which no filter reads, loaded and filtered.                             *)
(***************************************************************************)
FilterFiles ==
  UNION {[1..k -> {row \in CsvRows : row.AguaMl = NaNF}] : k \in 1..MaxRows}

InitFilter ==
  /\ pc = "start"
  /\ csv \in FilterFiles
  /\ df = None /\ date_range = None /\ meal_types = None
  /\ meal_search = None /\ hour_range = None /\ search_terms = None
  /\ df_filtered = None /\ unique_days = None /\ total_meals = None
  /\ avg_meals = None /\ avg_water = None /\ water_data = None
  /\ df_display = None /\ exported = None
  /\ top_foods = None /\ progress = None /\ rare_foods = None
  /\ text = None /\ cleaned = None /\ recleaned = None /\ words = None

NextFilter == load_data \/ ApplyFilters

SpecFilter == InitFilter /\ [][NextFilter]_vars

(***************************************************************************)
(* The specification of the word counts alone.  A word is a number; the    *)
(* next word is a new one, or a repeat of the first or of the latest word, *)
(* at most MaxRepeats times in all, up to MaxWords words.                  *)
(***************************************************************************)
Distinct(ws) == Cardinality(Range(ws))

InitFreq ==
  /\ pc = "words"
  /\ words = <<>>
  /\ top_foods = None /\ progress = None /\ rare_foods = None
  /\ csv = None /\ df = None /\ date_range = None /\ meal_types = None
  /\ meal_search = None /\ hour_range = None /\ search_terms = None
  /\ df_filtered = None /\ unique_days = None /\ total_meals = None
  /\ avg_meals = None /\ avg_water = None /\ water_data = None
  /\ df_display = None /\ exported = None
  /\ text = None /\ cleaned = None /\ recleaned = None

AddWord ==
  /\ pc = "words"
  /\ Len(words) < MaxWords
  /\ \E w \in {Distinct(words) + 1}
              \cup (IF words # <<>> /\ Len(words) - Distinct(words) < MaxRepeats
                    THEN {1, Distinct(words)} ELSE {}) :
       words' = Append(words, w)
  /\ UNCHANGED <<pc, top_foods, progress, rare_foods, pipelineVars, cleanVars>>

CountWords ==
  /\ pc = "words"
  /\ top_foods' = MostCommon(Counter(words), TopCount)
  /\ rare_foods' = RareFoods(Counter(words))
  /\ pc' = "counted"
  /\ UNCHANGED <<words, progress, pipelineVars, cleanVars>>

NextFreq == AddWord \/ CountWords

SpecFreq == InitFreq /\ [][NextFreq]_vars

(***************************************************************************)
(* The claims.                                                             *)
(***************************************************************************)
Loaded == pc \in {"loaded", "filtered", "metrics", "tabs", "progress_error", "done"}

Filtered == pc \in {"filtered", "metrics", "tabs", "progress_error", "done"}

Measured == pc \in {"metrics", "tabs", "progress_error", "done"}

Counted == pc \in {"tabs", "progress_error", "done"}

\* The first row of the file that has the date.
FirstRowOf(rows, date) == Min({j \in 1..Len(rows) : rows[j].Data = date})

\* C1: after load_data every row of a date carries, as 'Água (L)', the
\* 'Água (ml)' of the date's first row in file order divided by 1000,
\* whether that first row holds a water value or none.
C1_WaterOfFirstRow ==
  Loaded =>
    \A i \in 1..Len(df) :
      df[i].AguaL = DivF(csv[FirstRowOf(csv, df[i].Data)].AguaMl, 1000)

\* The rows that pass the date, meal-type and hour predicates.
BasicRows == BasicFilter(df, date_range, meal_types, hour_range)

\* C2: a search text that is not empty but whose terms are all blank after
\* trimming imposes no constraint: the filtered table is the table of the
\* date, meal-type and hour predicates alone.
C2_BlankSearchNoConstraint ==
  (Filtered /\ meal_search # <<>> /\ SearchTerms(meal_search) = <<>>) =>
    df_filtered = BasicRows

\* term occurs in txt, character for character.
IsSubstring(term, txt) ==
  \E s \in 1..(Len(txt) - Len(term) + 1) : SubSeq(txt, s, s + Len(term) - 1) = term

\* C3: with at least one term that is not blank, a row that passes the date,
\* meal-type and hour predicates is kept if and only if its lowercase meal
\* text holds one of the trimmed, lowercased terms as a substring; a row
\* without meal text is dropped.
C3_SearchKeepsSubstringRows ==
  (Filtered /\ meal_search # <<>> /\ SearchTerms(meal_search) # <<>>) =>
    df_filtered =
      RowsWhere(BasicRows, [i \in 1..Len(BasicRows) |->
        /\ BasicRows[i].Refeicao # NaN
        /\ \E k \in 1..Len(SearchTerms(meal_search)) :
             IsSubstring(SearchTerms(meal_search)[k], Lower(BasicRows[i].Refeicao))])

\* C4: clean_meal_text is idempotent: cleaning a cleaned text gives it back.
C4_CleanIdempotent == pc = "recleaned" => recleaned = cleaned

\* The whitespace-delimited token of t around position k holds a digit.
InDigitToken(t, k) ==
  \E a \in 1..k, b \in k..Len(t) :
    /\ \A j \in a..b : ~IsSpace(t[j])
    /\ \E j \in a..b : IsDigit(t[j])

\* t without its whitespace-delimited tokens that hold a digit.
WithoutDigitTokens(t) == KeepWhere(t, [k \in 1..Len(t) |-> ~InDigitToken(t, k)])

\* C5: clean_meal_text removes every whitespace-delimited token that holds a
\* digit as a whole, so the cleaned text is the cleaned text of the input
\* without those tokens: none of their letters is left.
C5_DigitTokensRemovedWhole ==
  (pc = "cleaned" /\ text # NaN) =>
    cleaned = clean_meal_text(WithoutDigitTokens(text))

IsZeroF(x) == x.d # 0 /\ x.n = 0

\* C6: with no day left in the filtered table every metric has its default:
\* no day, no row, a mean of 0 meals a day and a mean of 0 litres a day.
C6_ZeroDaysDefaults ==
  (Measured /\ Dates(df_filtered) = {}) =>
    /\ unique_days = 0
    /\ total_meals = 0
    /\ IsZeroF(avg_meals)
    /\ IsZeroF(avg_water)

\* One predicate dimension applied to a table.
Dimensions == {"date", "type", "hour", "search"}

ByDimension(t, dim) ==
  CASE dim = "date" -> RowsWhere(t, [i \in 1..Len(t) |-> DateMask(t[i], date_range)])
    [] dim = "type" -> RowsWhere(t, [i \in 1..Len(t) |-> TipoMask(t[i], meal_types)])
    [] dim = "hour" -> RowsWhere(t, [i \in 1..Len(t) |-> HoraMask(t[i], hour_range)])
    [] dim = "search" -> SearchFilter(t, meal_search)

Orders ==
  {o \in [1..4 -> Dimensions] : \A i, j \in 1..4 : i # j => o[i] # o[j]}

InOrder(t, o) ==
  ByDimension(ByDimension(ByDimension(ByDimension(t, o[1]), o[2]), o[3]), o[4])

Labels(t) == {t[i].idx : i \in 1..Len(t)}

\* C7: the filtered table holds the rows that each of the four dimensions
\* selects from the loaded table, and the four predicates applied one after
\* another in any order give the table the program computes.
C7_FilterOrderIrrelevant ==
  pc = "filtered" =>
    /\ \A o \in Orders : InOrder(df, o) = df_filtered
    /\ Labels(df_filtered) =
         Labels(ByDimension(df, "date")) \cap Labels(ByDimension(df, "type"))
           \cap Labels(ByDimension(df, "hour")) \cap Labels(ByDimension(df, "search"))

\* A row passes the three basic predicates and fails the search, and
\* another passes the search and fails a basic predicate.
C7_Witness ==
  /\ pc = "filtered"
  /\ \E i, j \in Labels(df) :
       /\ i \in Labels(BasicRows) /\ i \notin Labels(ByDimension(df, "search"))
       /\ j \notin Labels(BasicRows) /\ j \in Labels(ByDimension(df, "search"))

\* How often w stands in ws, and where it stands first.
CountIn(ws, w) == Cardinality({i \in 1..Len(ws) : ws[i] = w})

FirstIn(ws, w) == Min({i \in 1..Len(ws) : ws[i] = w})

Smaller(a, b) == IF a < b THEN a ELSE b

\* C8: of the tokens taken from the filtered rows' cleaned texts, the common
\* view lists at most 15, each with its count, in non-increasing count
\* order, no token left out has a higher count than a listed one, and
\* tokens of equal count stand in the order of their first occurrence; the
\* rare view is the tokens of count 1 in the order of their first
\* occurrence, cut to the first 30.
C8_CommonAndRareViews ==
  pc = "counted" =>
    LET count == [w \in Range(words) |-> CountIn(words, w)]
        first == [w \in Range(words) |-> FirstIn(words, w)]
        once == {w \in Range(words) : count[w] = 1}
        listed == {top_foods[i][1] : i \in 1..Len(top_foods)}
        shown == Range(rare_foods)
    IN  /\ Len(top_foods) = Smaller(Distinct(words), TopCount)
        /\ \A i \in 1..Len(top_foods) :
             /\ top_foods[i][1] \in Range(words)
             /\ top_foods[i][2] = count[top_foods[i][1]]
        /\ \A i \in 1..(Len(top_foods) - 1) :
             /\ top_foods[i][2] >= top_foods[i + 1][2]
             /\ top_foods[i][2] = top_foods[i + 1][2] =>
                  first[top_foods[i][1]] < first[top_foods[i + 1][1]]
        /\ Cardinality(listed) = Len(top_foods)
        /\ \A w \in Range(words) \ listed :
             \A i \in 1..Len(top_foods) : count[w] <= top_foods[i][2]
        /\ Len(rare_foods) = Smaller(Cardinality(once), RareLimit)
        /\ shown \subseteq once
        /\ \A i \in 1..(Len(rare_foods) - 1) :
             first[rare_foods[i]] < first[rare_foods[i + 1]]
        /\ \A w \in once \ shown :
             \A i \in 1..Len(rare_foods) : first[rare_foods[i]] < first[w]

\* More than 15 tokens and more than 30 of count 1, and a token met after
\* the 15th that is counted twice.
C8_Witness ==
  /\ pc = "counted"
  /\ Distinct(words) > TopCount
  /\ Cardinality({w \in Range(words) : CountIn(words, w) = 1}) > RareLimit
  /\ \E w \in Range(words) : w > TopCount /\ CountIn(words, w) = 2

\* The row of the filtered table under the index label k.
RowOf(t, k) == t[CHOOSE i \in 1..Len(t) : t[i].idx = k]

\* The filtered row under label k is the first of its date in the table.
FirstOfDate(t, k) ==
  \A i \in 1..Len(t) :
    t[i].Data = RowOf(t, k).Data =>
      (CHOOSE j \in 1..Len(t) : t[j].idx = k) <= i

\* C9: the detail table holds every filtered row; the first filtered row of
\* a date shows the date's daily water value and every later row of the
\* date shows none; and the filtered table behind the metrics, the water
\* chart and the export is as the filters left it.
C9_DetailTableWater ==
  pc = "done" =>
    /\ Len(df_display) = Len(df_filtered)
    /\ Labels(df_display) = Labels(df_filtered)
    /\ \A i \in 1..Len(df_display) :
         LET row == RowOf(df_filtered, df_display[i].idx)
         IN  /\ df_display[i].Data = row.Data
             /\ df_display[i].RefeicaoLimpa = row.RefeicaoLimpa
             /\ df_display[i].AguaL =
                  IF FirstOfDate(df_filtered, row.idx)
                  THEN DivF(GroupFirst(csv, row.Data), 1000) ELSE NaNF
    /\ \A i \in 1..Len(df_filtered) :
         df_filtered[i].AguaL = DivF(GroupFirst(csv, df_filtered[i].Data), 1000)
    /\ df_filtered = SearchFilter(BasicRows, meal_search)
    /\ exported = ToCsv(df_filtered)
    /\ water_data = WaterData(df_filtered)

\* Two filtered rows of one date that has a water value: the second is
\* blanked in the detail table and not in the filtered table.
C9_Witness ==
  /\ pc = "done"
  /\ \E i, j \in 1..Len(df_filtered) :
       /\ i < j
       /\ df_filtered[i].Data = df_filtered[j].Data
       /\ ~IsNaNF(df_filtered[j].AguaL)
       /\ \E k \in 1..Len(df_display) :
            df_display[k].idx = df_filtered[j].idx /\ IsNaNF(df_display[k].AguaL)

\* C10: every fraction count / number of filtered rows handed to the
\* progress display lies in [0, 1], and the division is never done with no
\* filtered row.
C10_ProgressFractionInRange ==
  Counted =>
    \A i \in 1..Len(top_foods) :
      /\ Len(df_filtered) > 0
      /\ 0 <= top_foods[i][2]
      /\ top_foods[i][2] <= Len(df_filtered)

====
